---- MODULE Spec2Model ----
(***************************************************************************)
(* RSA blind signature of blind_signature/message_owner.py and             *)
(* blind_signature/RSAbased_blind_signature/signer.py.                     *)
(*                                                                         *)
(* Three specifications share the definitions of the arithmetic:          *)
(*   Spec       one blind -> sign -> unblind -> verify transaction made of *)
(*              calls to the methods of MessageOwner and Signer;           *)
(*   SpecProto  the three command line runs and the JSON files they hand   *)
(*              to each other;                                             *)
(*   SpecPure   single calls of _modinv, sign_blinded and                  *)
(*              unblind_signature on arbitrary arguments.                  *)
(***************************************************************************)
EXTENDS Integers, FiniteSets, Sequences, TLC

VARIABLES
    digest,            \* SHA256: message -> integer value of its digest
    public_key,        \* MessageOwner.e, MessageOwner.N
    private_key,       \* Signer.d, Signer.N
    message,           \* argument of the last blind_message call
    r_arg,             \* its argument r (None: not supplied)
    blind_data,        \* dict returned by blind_message
    blind_signature,   \* result of sign_blinded
    unblind_r,         \* argument r of the last unblind_signature call
    final_signature,   \* result of unblind_signature
    v_message,         \* arguments of the last verify call
    v_signature,
    is_valid,          \* its result
    stage,             \* position in the transaction (Spec)
    file_blind_data,   \* blind_data.json
    file_private_key,  \* signer_private_key.json
    file_blind_sig,    \* blind_signature.json
    data,              \* what run_signer loaded from blind_data.json
    pc2,               \* position of run_message_owner_phase2
    owner_state,       \* last step the owner role completed
    call               \* SpecPure: the call made and its outcome

vars == <<digest, public_key, private_key, message, r_arg, blind_data,
          blind_signature, unblind_r, final_signature, v_message,
          v_signature, is_valid, stage, file_blind_data, file_private_key,
          file_blind_sig, data, pc2, owner_state, call>>

txVars == <<public_key, private_key, message, r_arg, blind_data,
            blind_signature, unblind_r, final_signature, v_message,
            v_signature, is_valid, stage>>

protoVars == <<file_blind_data, file_private_key, file_blind_sig, data,
               pc2, owner_state>>

-----------------------------------------------------------------------------
(* Bounds.  SHA-256 digests have 256 bits and the default key 1024; both   *)
(* are scaled down, keeping every digest below every prime of the key as   *)
(* 2^256 is below every 512-bit prime.                                     *)

DigestBits == 2

KeySize == 6

\* key sizes a caller passes to generate_rsa_keys
KeySizes == {KeySize, KeySize + 2}

MaxArg == 12

DigestRange == 0 .. (2^DigestBits - 1)

original_message == "This is my secret vote: Candidate A"

Messages == {original_message, "This is my secret vote: Candidate B"}

\* an absent optional argument, an absent file: the empty set; a present
\* one: the singleton of its value
None == {}

NoFile == {}

\* outcome of a call: the value returned, or the exception raised
Return(v) == [raises |-> "", value |-> v]

Raise(x) == [raises |-> x, value |-> 0]

ValueError == "ValueError"

ZeroDivisionError == "ZeroDivisionError"

-----------------------------------------------------------------------------
(* Arithmetic of the Python integers used by the code.                     *)

\* x % y of Python: the result has the sign of the divisor
PyMod(x, y) == IF y > 0 THEN x % y ELSE -((-x) % (-y))

\* x // y of Python: floor division
PyFloorDiv(x, y) == IF y > 0 THEN x \div y ELSE (-x) \div (-y)

\* pow(b, k, n) for k >= 0 and n > 0
RECURSIVE pow(_, _, _)
pow(b, k, n) ==
    IF k = 0 THEN 1 % n
    ELSE LET h == pow(b, k \div 2, n)
         IN  IF k % 2 = 0 THEN (h * h) % n
                          ELSE (((h * h) % n) * (b % n)) % n

RECURSIVE gcd(_, _)
gcd(a, b) == IF b # 0 THEN gcd(b, PyMod(a, b)) ELSE a

RECURSIVE egcd(_, _)
egcd(a, b) ==
    IF a = 0 THEN <<b, 0, 1>>
    ELSE LET t == egcd(PyMod(b, a), a)     \* t = <<g, y, x>>
         IN  <<t[1], t[3] - PyFloorDiv(b, a) * t[2], t[2]>>

\* _modinv that returns the other Bezout coefficient
modinv_y(a, m) ==
    LET t == egcd(a, m)
    IN  IF t[1] # 1 THEN Raise(ValueError)
        ELSE IF m = 0 THEN Raise(ZeroDivisionError)
        ELSE Return(t[3] % m)

\* _modinv without the test of g
modinv_nocheck(a, m) ==
    LET t == egcd(a, m)
    IN  IF m = 0 THEN Raise(ZeroDivisionError)
        ELSE Return(t[2] % m)

modinv(a, m) ==
    LET t == egcd(a, m)
    IN  IF t[1] # 1 THEN Raise(ValueError)
        ELSE IF m = 0 THEN Raise(ZeroDivisionError)
        ELSE Return(t[2] % m)

-----------------------------------------------------------------------------
(* Key generation.                                                         *)

e == 65537

IsPrime(n) == n > 1 /\ \A k \in 2 .. (n - 1) : n % k # 0

\* Crypto.Util.number.getPrime(bits): a random prime of exactly bits bits
getPrime(bits) == {n \in 2^(bits - 1) .. (2^bits - 1) : IsPrime(n)}

\* Crypto.Util.number.inverse(u, v)
inverse(u, v) == CHOOSE x \in 0 .. (v - 1) : ((u % v) * x) % v = 1 % v

\* the pairs <<public key, private key>> generate_rsa_keys can return
generate_rsa_keys(key_size) ==
    {LET Nn  == p * q
         phi == (p - 1) * (q - 1)
         d   == inverse(e, phi)
     IN  <<(<<e, Nn>>), (<<d, Nn>>)>> :
        p \in getPrime(key_size \div 2), q \in getPrime(key_size \div 2)}

-----------------------------------------------------------------------------
(* MessageOwner and Signer.                                                *)

\* bytes_to_long(SHA256.new(message).digest())
SHA256(msg) == digest[msg]

\* blind_message that samples r without testing gcd(r, N)
blind_message_nogcd(pk, msg, r0) ==
    LET m  == SHA256(msg)
        Nn == pk[2]
        rs == IF r0 = None THEN 2 .. (Nn - 1) ELSE r0
    IN  {[blinded_msg   |-> (m * pow(r, pk[1], Nn)) % Nn,
          r             |-> r,
          original_hash |-> m] : r \in rs}

\* blind_message that adds the mask r^e instead of multiplying by it
blind_message_add(pk, msg, r0) ==
    LET m  == SHA256(msg)
        Nn == pk[2]
        rs == IF r0 = None
              THEN {x \in 2 .. (Nn - 1) : gcd(x, Nn) = 1}
              ELSE r0
    IN  {[blinded_msg   |-> (m + pow(r, pk[1], Nn)) % Nn,
          r             |-> r,
          original_hash |-> m] : r \in rs}

\* the dicts blind_message can return: r is sampled when it is not supplied
blind_message(pk, msg, r0) ==
    LET m  == SHA256(msg)
        Nn == pk[2]
        rs == IF r0 = None
              THEN {x \in 2 .. (Nn - 1) : gcd(x, Nn) = 1}
              ELSE r0
    IN  {[blinded_msg   |-> (m * pow(r, pk[1], Nn)) % Nn,
          r             |-> r,
          original_hash |-> m] : r \in rs}

\* unblind_signature that multiplies by r instead of its inverse
unblind_signature_noinv(pk, blinded_signature, r) ==
    Return((blinded_signature * r) % pk[2])

unblind_signature(pk, blinded_signature, r) ==
    LET r_inv == modinv(r, pk[2])
    IN  IF r_inv.raises # "" THEN r_inv
        ELSE Return((blinded_signature * r_inv.value) % pk[2])

\* verify with the exponent off by one
verify_exp(pk, msg, signature) ==
    LET m == SHA256(msg)
    IN  pow(signature, pk[1] - 1, pk[2]) = m % pk[2]

verify(pk, msg, signature) ==
    LET m == SHA256(msg)
    IN  pow(signature, pk[1], pk[2]) = m % pk[2]

\* sign_blinded that multiplies by d instead of raising to it
sign_blinded_mul(sk, blinded_message) == (blinded_message * sk[1]) % sk[2]

\* sign_blinded that raises to the public exponent
sign_blinded_pub(sk, blinded_message) == pow(blinded_message, e, sk[2])

sign_blinded(sk, blinded_message) == pow(blinded_message, sk[1], sk[2])

-----------------------------------------------------------------------------
(* Spec: one transaction through the methods of the two classes.  The      *)
(* owner and the signer are built from one pair of generate_rsa_keys.      *)

NoDict == [blinded_msg |-> 0, r |-> 0, original_hash |-> 0]

NoCall == [fn |-> "", args |-> <<>>, out |-> Return(0)]

\* the values of r a caller supplies to blind_message: those the sampling
\* never returns (a supplied unit of [2, N) gives the dict the sampling of
\* that unit gives)
SuppliedR(Nn) ==
    {x \in 0 .. (Nn + 1) :
        x < 2 \/ x >= Nn \/ \E g \in 2 .. x : x % g = 0 /\ Nn % g = 0}

\* what a caller adds to the unblinded signature before verifying it
SigDeltas == {0, 1}

ProtoIdle ==
    /\ file_blind_data = NoFile
    /\ file_private_key = NoFile
    /\ file_blind_sig = NoFile
    /\ data = NoFile
    /\ pc2 = "idle"
    /\ owner_state = "Created"

TxIdle ==
    /\ message = ""
    /\ r_arg = None
    /\ blind_data = NoDict
    /\ blind_signature = 0
    /\ unblind_r = 0
    /\ final_signature = Return(0)
    /\ v_message = ""
    /\ v_signature = 0
    /\ is_valid = FALSE
    /\ stage = "created"

Init ==
    /\ digest \in [Messages -> DigestRange]
    /\ \E key_size \in KeySizes : \E kp \in generate_rsa_keys(key_size) :
          /\ public_key = kp[1]
          /\ private_key = kp[2]
    /\ TxIdle
    /\ ProtoIdle
    /\ call = NoCall

BlindMessage ==
    /\ stage = "created"
    /\ \E msg \in Messages, r0 \in {None} \cup {{x} : x \in SuppliedR(public_key[2])} :
          \E res \in blind_message(public_key, msg, r0) :
              /\ message' = msg
              /\ r_arg' = r0
              /\ blind_data' = res
    /\ stage' = "blinded"
    /\ UNCHANGED <<digest, public_key, private_key, blind_signature, unblind_r,
                   final_signature, v_message, v_signature, is_valid,
                   protoVars, call>>

SignBlinded ==
    /\ stage = "blinded"
    /\ blind_signature' = sign_blinded(private_key, blind_data.blinded_msg)
    /\ stage' = "signed"
    /\ UNCHANGED <<digest, public_key, private_key, message, r_arg, blind_data,
                   unblind_r, final_signature, v_message, v_signature,
                   is_valid, protoVars, call>>

UnblindSignature ==
    /\ stage = "signed"
    /\ \E r \in {blind_data.r, blind_data.r + 1} :
          /\ unblind_r' = r
          /\ final_signature' = unblind_signature(public_key, blind_signature, r)
    /\ stage' = "unblinded"
    /\ UNCHANGED <<digest, public_key, private_key, message, r_arg, blind_data,
                   blind_signature, v_message, v_signature, is_valid,
                   protoVars, call>>

Verify ==
    /\ stage = "unblinded"
    /\ final_signature.raises = ""
    /\ \E msg \in Messages, delta \in SigDeltas :
          /\ v_message' = msg
          /\ v_signature' = final_signature.value + delta
          /\ is_valid' = verify(public_key, msg, final_signature.value + delta)
    /\ stage' = "verified"
    /\ UNCHANGED <<digest, public_key, private_key, message, r_arg, blind_data,
                   blind_signature, unblind_r, final_signature, protoVars, call>>

Next == BlindMessage \/ SignBlinded \/ UnblindSignature \/ Verify

Spec == Init /\ [][Next]_vars

-----------------------------------------------------------------------------
(* Arithmetic the properties are stated with, independent of the code.     *)

Abs(x) == IF x < 0 THEN -x ELSE x

\* gcd(a, b) = 1
Coprime(a, b) ==
    /\ a # 0 \/ b # 0
    /\ \A g \in 2 .. (IF Abs(a) > Abs(b) THEN Abs(a) ELSE Abs(b)) :
          a % g # 0 \/ b % g # 0

\* the units of Z/N: the residues no prime factor of N divides
Units(Nn) ==
    LET factors == {p \in 2 .. Nn : Nn % p = 0 /\ IsPrime(p)}
    IN  {x \in 1 .. (Nn - 1) : \A p \in factors : x % p # 0}

\* N is a product of two distinct primes and e*d = 1 mod phi(N)
ValidKeyPair(pk, sk) ==
    /\ pk[2] = sk[2]
    /\ \E p \in 2 .. (pk[2] - 1) :
          /\ pk[2] % p = 0
          /\ LET q == pk[2] \div p
             IN  /\ p # q
                 /\ IsPrime(p)
                 /\ IsPrime(q)
                 /\ (pk[1] * sk[1]) % ((p - 1) * (q - 1)) = 1

Nmod == public_key[2]

\* the transaction hands each result to the next call unchanged
SameR == unblind_r = blind_data.r

-----------------------------------------------------------------------------
(* Properties of Spec.                                                     *)

\* C1: with a valid key pair and r coprime to N, blinding a message,
\* signing the blinded value, unblinding with the same r and verifying the
\* original message against the unblinded signature gives true.
RoundTripCorrect ==
    (/\ stage = "verified"
     /\ SameR
     /\ v_message = message
     /\ v_signature = final_signature.value
     /\ Coprime(blind_data.r, Nmod)
     /\ ValidKeyPair(public_key, private_key))
        => is_valid

RoundTripWitness ==
    /\ stage = "verified"
    /\ SameR
    /\ v_message = message
    /\ v_signature = final_signature.value
    /\ Coprime(blind_data.r, Nmod)
    /\ ValidKeyPair(public_key, private_key)
    /\ blind_data.r > 1
    /\ SHA256(message) > 1
    /\ is_valid

\* C2: with a valid key pair and r coprime to N, the unblinded signature is
\* exactly digest^d mod N, whatever r was.
UnblindingIdentity ==
    (/\ stage \in {"unblinded", "verified"}
     /\ SameR
     /\ Coprime(blind_data.r, Nmod)
     /\ ValidKeyPair(public_key, private_key))
        => final_signature = Return(pow(SHA256(message), private_key[1], Nmod))

UnblindingWitness ==
    /\ stage = "unblinded"
    /\ SameR
    /\ Coprime(blind_data.r, Nmod)
    /\ ValidKeyPair(public_key, private_key)
    /\ blind_data.r > 1
    /\ SHA256(message) > 1
    /\ blind_data.blinded_msg # SHA256(message)
    /\ final_signature.raises = ""
    /\ final_signature.value # blind_signature

\* what C4 says of a signature that verify accepted
RejectsAltered ==
    /\ \A msg \in Messages :
          SHA256(msg) # SHA256(v_message)
              => ~verify(public_key, msg, v_signature)
    /\ \A s \in 0 .. (Nmod + 1) :
          (s - v_signature) % Nmod # 0
              => ~verify(public_key, v_message, s)

BlindedValueOk ==
    /\ blind_data.original_hash \in 0 .. (Nmod - 1)
    /\ blind_data.original_hash = SHA256(message)
    /\ blind_data.blinded_msg \in 0 .. (Nmod - 1)
    /\ blind_data.blinded_msg =
          (blind_data.original_hash * pow(blind_data.r, e, Nmod)) % Nmod

\* C6 as claimed: every dict blind_message returns, r sampled or supplied,
\* has its digest in [0, N), r in [1, N) coprime to N, and the blinded
\* value in [0, N) equal to digest * r^e mod N.
BlindingContextAnyR ==
    stage # "created"
        => /\ BlindedValueOk
           /\ blind_data.r \in 1 .. (Nmod - 1)
           /\ Coprime(blind_data.r, Nmod)

\* C6 as amended: the digest and the blinded value are as claimed; a
\* sampled r lies in [2, N) and is coprime to N, a supplied r is returned
\* as it was given, unchecked.
BlindingContext ==
    stage # "created"
        => /\ BlindedValueOk
           /\ r_arg = None => /\ blind_data.r \in 2 .. (Nmod - 1)
                              /\ Coprime(blind_data.r, Nmod)
           /\ r_arg # None => r_arg = {blind_data.r}

BlindingContextWitness ==
    /\ stage = "blinded"
    /\ r_arg = None
    /\ blind_data.r > 2
    /\ blind_data.original_hash > 1
    /\ ~IsPrime(Nmod)

\* the blinded values of a message as r ranges over the units of Z/N
BlindedValues(msg, units) ==
    {res.blinded_msg :
        res \in UNION {blind_message(public_key, msg, {r}) : r \in units}}

\* the number of units r that blind msg to v
Preimages(msg, v) ==
    Cardinality({r \in Units(Nmod) :
        \E res \in blind_message(public_key, msg, {r}) : res.blinded_msg = v})

\* C9 as claimed: as r ranges over the units of Z/N, the blinded value is
\* uniform over [0, N), the same for every digest.
BlindingUniformOnAll ==
    stage = "blinded"
        => \A msg \in Messages : \A v, w \in 0 .. (Nmod - 1) :
              Preimages(msg, v) = Preimages(msg, w)

\* C9 as amended: with a valid key pair, for every digest coprime to N the
\* blinded values of the units are the units, each reached by one r (the
\* two sets are finite and equal), so the blinded value is uniform over the
\* units of Z/N and the same for every such digest.
BlindingUniformOnUnits ==
    (/\ stage = "blinded"
     /\ ValidKeyPair(public_key, private_key)
     /\ Coprime(SHA256(message), Nmod))
        => LET units == Units(Nmod)
           IN  /\ BlindedValues(message, units) = units
               /\ blind_data.r \in units => blind_data.blinded_msg \in units

BlindingUniformWitness ==
    /\ stage = "blinded"
    /\ ValidKeyPair(public_key, private_key)
    /\ Coprime(SHA256(message), Nmod)
    /\ SHA256(message) > 1
    /\ r_arg = None
    /\ blind_data.blinded_msg \notin {SHA256(message), blind_data.r}

-----------------------------------------------------------------------------
(* SpecPure: single calls on arbitrary arguments.  _modinv is called on   *)
(* the non-negative a and the moduli m >= 1 the owner can pass to it.      *)

InitPure ==
    /\ digest = [msg \in Messages |-> 0]
    /\ \E key_size \in KeySizes : \E kp \in generate_rsa_keys(key_size) :
          /\ public_key = kp[1]
          /\ private_key = kp[2]
    /\ TxIdle
    /\ ProtoIdle
    /\ call = NoCall

CallModinv ==
    /\ call = NoCall
    /\ \E a \in 0 .. MaxArg, m \in 1 .. MaxArg :
          call' = [fn |-> "_modinv", args |-> <<a, m>>, out |-> modinv(a, m)]
    /\ UNCHANGED <<digest, txVars, protoVars>>

CallSignBlinded ==
    /\ call = NoCall
    /\ \E b \in (-MaxArg) .. (private_key[2] + MaxArg) :
          call' = [fn  |-> "sign_blinded", args |-> <<b>>,
                   out |-> Return(sign_blinded(private_key, b))]
    /\ UNCHANGED <<digest, txVars, protoVars>>

CallUnblindSignature ==
    /\ call = NoCall
    /\ \E s \in 0 .. MaxArg, r \in 0 .. (public_key[2] + 1) :
          call' = [fn  |-> "unblind_signature", args |-> <<s, r>>,
                   out |-> unblind_signature(public_key, s, r)]
    /\ UNCHANGED <<digest, txVars, protoVars>>

NextPure == CallModinv \/ CallSignBlinded \/ CallUnblindSignature

SpecPure == InitPure /\ [][NextPure]_vars

-----------------------------------------------------------------------------
(* Properties of SpecPure.                                                 *)

\* b^k mod n, from b^(2j) = (b^2)^j and b^(2j+1) = b * (b^2)^j
RECURSIVE ModExp(_, _, _)
ModExp(b, k, n) ==
    IF k = 0 THEN 1 % n
    ELSE IF k % 2 = 0 THEN ModExp((b * b) % n, k \div 2, n)
    ELSE ((b % n) * ModExp((b * b) % n, k \div 2, n)) % n

\* the call returned the inverse of a modulo m
IsInverse(a, m, out) ==
    /\ out.raises = ""
    /\ m > 0
    /\ out.value \in 0 .. (m - 1)
    /\ (a * out.value) % m = 1

\* C5 as claimed: for every modulus m and every a coprime to m,
\* _modinv(a, m) returns x in [0, m) with a*x % m = 1.
InverseCorrectAnyModulus ==
    (call.fn = "_modinv" /\ Coprime(call.args[1], call.args[2]))
        => IsInverse(call.args[1], call.args[2], call.out)

\* C5 as amended: the same for every modulus m >= 2 and every a >= 0
\* coprime to m.
InverseCorrect ==
    (/\ call.fn = "_modinv"
     /\ call.args[2] >= 2
     /\ call.args[1] >= 0
     /\ Coprime(call.args[1], call.args[2]))
        => IsInverse(call.args[1], call.args[2], call.out)

InverseCorrectWitness ==
    /\ call.fn = "_modinv"
    /\ call.args[2] >= 2
    /\ call.args[1] > call.args[2]
    /\ Coprime(call.args[1], call.args[2])
    /\ call.out.raises = ""
    /\ call.out.value > 1

\* C8: _modinv(a, m) raises and returns no value whenever gcd(a, m) # 1,
\* and unblind_signature with r not coprime to N raises the same error
\* instead of returning a signature.
NoInverseRaises ==
    /\ (call.fn = "_modinv" /\ ~Coprime(call.args[1], call.args[2]))
          => call.out = Raise(ValueError)
    /\ (call.fn = "unblind_signature" /\ ~Coprime(call.args[2], Nmod))
          => call.out = Raise(ValueError)

NoInverseWitness ==
    /\ call.fn = "unblind_signature"
    /\ call.args[1] > 0
    /\ call.args[2] > 1
    /\ ~Coprime(call.args[2], Nmod)
    /\ call.out = Raise(ValueError)

\* C7 as claimed: sign_blinded returns b^d mod N for b in [0, N) and fails
\* with InvalidInputError exactly when b is outside [0, N).
SignRejectsOutOfRange ==
    call.fn = "sign_blinded"
        => IF call.args[1] \in 0 .. (Nmod - 1)
           THEN call.out = Return(ModExp(call.args[1], private_key[1], Nmod))
           ELSE call.out.raises = "InvalidInputError"

\* C7 as amended: sign_blinded never fails: for every integer b it returns
\* (b mod N)^d mod N, a value of [0, N), so a value outside [0, N) is signed
\* as its residue; with a valid key pair the result raised to e is b mod N.
SignNeverRejects ==
    call.fn = "sign_blinded"
        => /\ call.out = Return(ModExp(call.args[1] % Nmod, private_key[1], Nmod))
           /\ call.out.value \in 0 .. (Nmod - 1)
           /\ ValidKeyPair(public_key, private_key)
                 => pow(call.out.value, e, Nmod) = call.args[1] % Nmod

SignNeverRejectsWitness ==
    /\ call.fn = "sign_blinded"
    /\ call.args[1] > Nmod
    /\ ValidKeyPair(public_key, private_key)
    /\ call.out.raises = ""
    /\ call.out.value > 1
    /\ call.out.value # call.args[1] % Nmod

-----------------------------------------------------------------------------
(* SpecProto: the command line runs.  Each run is a process of its own;    *)
(* the runs follow each other and share the three JSON files only.         *)
(* json.dump and json.load return the integers they were given.            *)

NoKey == <<0, 0>>

InitProto ==
    /\ digest \in {f \in [Messages -> DigestRange] :
                      \A msg \in Messages \ {original_message} : f[msg] = 0}
    /\ public_key = NoKey
    /\ private_key = NoKey
    /\ TxIdle
    /\ ProtoIdle
    /\ call = NoCall

\* python message_owner.py
run_message_owner_phase1 ==
    /\ pc2 = "idle"
    /\ \E kp \in generate_rsa_keys(KeySize) :
          \E bd \in blind_message(kp[1], original_message, None) :
              /\ file_blind_data' =
                    {("blinded_msg" :> bd.blinded_msg) @@
                     ("public_key" :> kp[1]) @@
                     ("_secret_r" :> bd.r) @@
                     ("_original_hash" :> bd.original_hash)}
              /\ file_private_key' = {[private_key |-> kp[2]]}
    /\ owner_state' = "Blinded"
    /\ UNCHANGED <<digest, txVars, file_blind_sig, data, pc2, call>>

\* python signer.py; open() raises when a file is missing
run_signer ==
    /\ pc2 = "idle"
    /\ file_private_key # NoFile
    /\ file_blind_data # NoFile
    /\ \E key_data \in file_private_key, loaded \in file_blind_data :
          /\ data' = {loaded}
          /\ file_blind_sig' =
                {[blind_signature |->
                    sign_blinded(key_data.private_key, loaded["blinded_msg"])]}
    /\ UNCHANGED <<digest, txVars, file_blind_data, file_private_key, pc2,
                   owner_state, call>>

\* Phase2Unblind that takes a missing blind_signature.json for signature 0
Phase2UnblindNoSig ==
    /\ pc2 = "idle"
    /\ file_blind_data # NoFile
    /\ \E bd \in file_blind_data :
          LET sig == IF file_blind_sig = NoFile THEN 0
                     ELSE (CHOOSE f \in file_blind_sig : TRUE).blind_signature
          IN  /\ unblind_r' = bd["_secret_r"]
              /\ public_key' = bd["public_key"]
              /\ blind_signature' = sig
              /\ final_signature' =
                    unblind_signature(bd["public_key"], sig, bd["_secret_r"])
    /\ pc2' = "unblinded"
    /\ owner_state' = "Unblinded"
    /\ UNCHANGED <<digest, private_key, message, r_arg, blind_data, v_message,
                   v_signature, is_valid, stage, file_blind_data,
                   file_private_key, file_blind_sig, data, call>>

\* python message_owner.py phase2, up to the unblinded signature; open()
\* raises when a file is missing, _modinv when r has no inverse
Phase2Unblind ==
    /\ pc2 = "idle"
    /\ file_blind_data # NoFile
    /\ file_blind_sig # NoFile
    /\ \E bd \in file_blind_data, signature_data \in file_blind_sig :
          LET out == unblind_signature(bd["public_key"],
                                       signature_data.blind_signature,
                                       bd["_secret_r"])
          IN  /\ out.raises = ""
              /\ unblind_r' = bd["_secret_r"]
              /\ public_key' = bd["public_key"]
              /\ blind_signature' = signature_data.blind_signature
              /\ final_signature' = out
    /\ pc2' = "unblinded"
    /\ owner_state' = "Unblinded"
    /\ UNCHANGED <<digest, private_key, message, r_arg, blind_data, v_message,
                   v_signature, is_valid, stage, file_blind_data,
                   file_private_key, file_blind_sig, data, call>>

\* the verification that ends phase 2
Phase2Verify ==
    /\ pc2 = "unblinded"
    /\ is_valid' = verify(public_key, original_message, final_signature.value)
    /\ pc2' = "verified"
    /\ owner_state' = "Verified"
    /\ UNCHANGED <<digest, public_key, private_key, message, r_arg, blind_data,
                   blind_signature, unblind_r, final_signature, v_message,
                   v_signature, stage, file_blind_data, file_private_key,
                   file_blind_sig, data, call>>

\* run_message_owner_phase2 returns: its locals are gone
Phase2Return ==
    /\ pc2 = "verified"
    /\ pc2' = "idle"
    /\ public_key' = NoKey
    /\ unblind_r' = 0
    /\ blind_signature' = 0
    /\ final_signature' = Return(0)
    /\ is_valid' = FALSE
    /\ UNCHANGED <<digest, private_key, message, r_arg, blind_data, v_message,
                   v_signature, stage, file_blind_data, file_private_key,
                   file_blind_sig, data, owner_state, call>>

NextProto ==
    \/ run_message_owner_phase1
    \/ run_signer
    \/ Phase2Unblind
    \/ Phase2Verify
    \/ Phase2Return

SpecProto == InitProto /\ [][NextProto]_vars

-----------------------------------------------------------------------------
(* Properties of SpecProto.                                                *)

\* C3: what the owner hands to the signer, and what the signer loads, holds
\* the blinded value and the public key only, never r.
SignerNeverGetsR ==
    \A f \in file_blind_data \cup data :
        DOMAIN f \subseteq {"blinded_msg", "public_key"}

Rank(st) ==
    CASE st = "Created" -> 0
      [] st = "Blinded" -> 1
      [] st = "Unblinded" -> 2
      [] st = "Verified" -> 3

\* C10 as claimed: the owner role only moves forward through Created,
\* Blinded, Unblinded, Verified, one step at a time, and never back.
OwnerForwardOnly ==
    [][owner_state' # owner_state
          => Rank(owner_state') = Rank(owner_state) + 1]_vars

\* C10 as amended: the owner never returns to Created, unblinds only after
\* it has blinded and the signer has written a blind signature, and verifies
\* only right after unblinding; the runs can be repeated, so the role can go
\* back from Verified to Blinded or Unblinded.
OwnerOrder ==
    [][/\ owner_state' # "Created"
       /\ (owner_state' = "Unblinded" /\ owner_state # "Unblinded")
             => /\ owner_state \in {"Blinded", "Verified"}
                /\ file_blind_data # NoFile
                /\ file_blind_sig # NoFile
                /\ data # NoFile
       /\ (owner_state' = "Verified" /\ owner_state # "Verified")
             => owner_state = "Unblinded"]_vars

OwnerOrderWitness ==
    /\ owner_state = "Verified"
    /\ pc2 = "verified"
    /\ is_valid
    /\ final_signature.value > 1
    /\ final_signature.value # blind_signature

====
